---- MODULE Spec2Model ----
(***************************************************************************)
(* The Scheduler / Task execution engine of waveforms.sched:               *)
(* Scheduler.submit, the submission loop (submit_loop), dispatch (submit), *)
(* the per-task compile, submit (submit_thread) and fetch (fetch_data)     *)
(* activities, the waiting loop, Scheduler.cancel and the executor         *)
(* boundary, each as a process whose steps are the points at which the     *)
(* Python threads can interleave.                                          *)
(***************************************************************************)
EXTENDS Integers, Sequences, FiniteSets, TLC

\* ------------------------------------------------------------------ bounds
\* Number of items of every task's sweep (steps the compile activity makes).
NSteps == 2

\* ------------------------------------------------------------- vocabulary
Tasks == {"A", "B", "C"}
None == "none"
Threads == {"compile", "submit", "fetch"}
Clients == {"u1", "u2"}

NotSubmitted == "not submited"
\* base.py 129 and scheduler.py 466: the id of a task never submitted.
NoId == 0 - 1
TerminalStatus == {"finished", "failed", "cancelled"}
WaitingStatus == {"submiting", "pending", "compiling"}
StatusSet == {NotSubmitted, "pending", "compiling", "submiting", "running"}
                \cup TerminalStatus

VARIABLES
    \* ---- task definitions, fixed at construction
    universe,       \* the task objects that exist
    clients,        \* the threads that call Scheduler.submit
    parent,         \* nesting relation behind Task.is_children_of
    with_feedback,  \* runtime.prog.with_feedback
    priority,       \* runtime.priority
    at,             \* runtime.at
    created_time,   \* runtime.created_time
    now,            \* time.time()
    faulty,         \* tasks for which an executor call may raise
    \* ---- TaskRuntime
    status,         \* runtime.status
    prev_status,    \* the status that the last write of status replaced
    kill,           \* threads whose _kill_event is set
    late_cancel,    \* a kill signal was set when the status was terminal
    step,           \* runtime.step
    steps,          \* len(runtime.prog.steps)
    compile_pc,     \* runtime.threads['compile']
    submit_pc,      \* runtime.threads['submit']
    submit_i,       \* local i of submit_thread
    fetch_pc,       \* runtime.threads['fetch']
    \* ---- Scheduler
    task_queue,     \* Scheduler._queue: number of entries of each task
    current_stack,  \* Scheduler._submit_stack
    running_pool,   \* Scheduler._waiting_pool
    loop_pc,        \* position of submit_loop
    loop_cur,       \* local current_task of submit_loop
    loop_task,      \* local task of submit_loop
    cancel_pc,      \* position of Scheduler.cancel
    call_pc,        \* position of each client inside Scheduler.submit
    call_task,      \* argument task of the client's call in progress
    call_dry,       \* argument dry_run of the client's call in progress
    call_result,    \* outcome of the client's last call
    counter,        \* Scheduler.counter: how many ids it has produced
    id,             \* runtime.id
    \* ---- executor boundary (what the scheduler asked of it)
    fed,            \* step indices fed per task, in call order
    clean_feeds,    \* feeds at step index -2 per task
    frees,          \* free(task_id) calls per task made by dispatch
    fetch_frees,    \* free(task_id) calls per task made by fetch_data
    saves,          \* save(task_id, path) calls per task
    finished_step,  \* finished_step of the _is_finished that returned True
    exec_cancels,   \* executor.cancel() calls
    \* ---- persistence
    record,         \* runtime.record: none, or what became of the record
    commits,        \* task.db.commit() calls per task
    poll_raised,    \* an exception was raised inside the loop of fetch_data
    \* ---- Task.__lt__ on two arbitrary tasks
    lt_self, lt_other, lt_result,
    \* ---- Scheduler.login / Scheduler.add_user
    users,          \* the User table: name -> stored password, or absent
    sessions,       \* Terminal objects created by login
    login_user,     \* username of the last login call
    login_pw,       \* password of the last login call
    login_result,   \* what the last login call returned or raised
    \* ---- Cycles
    perm_a, perm_b, \* two Cycles objects
    perm_prod,      \* perm_a * perm_b
    perm_inv,       \* perm_a.inv()
    perm_right,     \* perm_a * perm_a.inv()
    perm_left,      \* perm_a.inv() * perm_a
    perm_done,      \* which of these have been computed
    \* ---- Scheduler.bootstrap
    executor,       \* Scheduler.executor
    eng,            \* Scheduler.eng, named by the url it was created for
    debug_mode,     \* the debug_mode the waiting loop was started with
    submit_loops,   \* submit_loop threads started
    waiting_loops,  \* waiting_loop threads started
    boot_calls,     \* calls of bootstrap made
    boot_args,      \* arguments of the last call of bootstrap
    \* ---- Library
    lib_parents,    \* the libraries p1, ..., pn given to libraries()
    lib_name,       \* the name looked up
    lib_gate,       \* what getGate(name) returned
    lib_opaque,     \* what getOpaque(name) returned
    lib_done        \* which of the two have been called

cfgVars == <<universe, clients, parent, with_feedback, priority, at,
             created_time, now, faulty>>
statusVars == <<status, prev_status>>
killVars == <<kill, late_cancel>>
taskVars == <<statusVars, killVars, step, steps, compile_pc, submit_pc, submit_i,
              fetch_pc>>
loopVars == <<loop_pc, loop_cur, loop_task>>
collVars == <<task_queue, current_stack, running_pool>>
cancelVars == <<cancel_pc>>
idVars == <<counter, id>>
callVars == <<call_pc, call_task, call_dry, call_result, idVars>>
execVars == <<fed, clean_feeds, frees, fetch_frees, saves, finished_step,
              exec_cancels>>
recVars == <<record, commits, poll_raised>>
ltVars == <<lt_self, lt_other, lt_result>>
loginVars == <<users, sessions, login_user, login_pw, login_result>>
permVars == <<perm_a, perm_b, perm_prod, perm_inv, perm_right, perm_left,
              perm_done>>
\* The parts of the program that stand apart from the task engine.
bootVars == <<executor, eng, debug_mode, submit_loops, waiting_loops,
              boot_calls, boot_args>>
libVars == <<lib_parents, lib_name, lib_gate, lib_opaque, lib_done>>
offVars == <<ltVars, loginVars, permVars, bootVars, libVars>>
vars == <<cfgVars, taskVars, loopVars, collVars, cancelVars, callVars,
          execVars, recVars, offVars>>

\* ------------------------------------------------------------- Task.__lt__
\* Python's < on 3-tuples.
TupleLt(a, b) ==
    \/ a[1] < b[1]
    \/ a[1] = b[1] /\ a[2] < b[2]
    \/ a[1] = b[1] /\ a[2] = b[2] /\ a[3] < b[3]

\* Mutant: an order by creation time alone.
Lt_M(self, other) == self.created_time < other.created_time

\* base.py 259-261: the right-hand tuple is built from self.runtime.at.
Lt(self, other) ==
    TupleLt(<<self.at, self.priority, self.created_time>>,
            <<self.at, other.priority, other.created_time>>)

TaskRec(t) ==
    [at |-> at[t], priority |-> priority[t], created_time |-> created_time[t]]

\* ------------------------------------------------------------- collections
QueueTasks == {t \in Tasks : task_queue[t] > 0}

\* PriorityQueue.get_nowait: an entry no other entry compares smaller than.
QueueHeads == {t \in QueueTasks :
                 \A u \in QueueTasks : ~Lt(TaskRec(u), TaskRec(t))}

Put(q, t) == [q EXCEPT ![t] = @ + 1]
Take(q, t) == [q EXCEPT ![t] = @ - 1]

Top(s) == s[Len(s)]
\* Mutant: a pop that takes the task at the bottom.
Pop_M(s) == Tail(s)

\* list.pop(): the list without its last element.
Pop(s) == SubSeq(s, 1, Len(s) - 1)

\* Task.is_children_of
is_children_of(t, p) == parent[t] = p

\* Thread.is_alive
IsAlive(pc) == pc \notin {"idle", "done", "crashed"}

\* Task.cancel: ThreadWithKill.kill on every thread of runtime.threads;
\* the table is empty until Scheduler.submit fills it.
TaskCancelled(k, s, t) ==
    IF s[t] = NotSubmitted THEN k ELSE [k EXCEPT ![t] = Threads]

\* Whether a Task.cancel of t has set a kill signal of a terminal task.
LateCancelled(l, k, s, t) ==
    IF s[t] \in TerminalStatus /\ TaskCancelled(k, s, t) # k
    THEN [l EXCEPT ![t] = TRUE] ELSE l

\* An assignment to runtime.status.
SetStatus(t, v) ==
    /\ status' = [status EXCEPT ![t] = v]
    /\ prev_status' = [prev_status EXCEPT ![t] = status[t]]

\* ------------------------------------------------------------------- Init
\* TaskRuntime() defaults (base.py 122-153).
InitRuntime ==
    /\ status = [t \in Tasks |-> NotSubmitted]
    /\ prev_status = [t \in Tasks |-> NotSubmitted]
    /\ kill = [t \in Tasks |-> {}]
    /\ late_cancel = [t \in Tasks |-> FALSE]
    /\ step = [t \in Tasks |-> 0]
    /\ steps = [t \in Tasks |-> 0]
    /\ compile_pc = [t \in Tasks |-> "idle"]
    /\ submit_pc = [t \in Tasks |-> "idle"]
    /\ submit_i = [t \in Tasks |-> 0]
    /\ fetch_pc = [t \in Tasks |-> "idle"]

\* Scheduler.__init__ (scheduler.py 166-174) and the idle threads.
InitScheduler ==
    /\ task_queue = [t \in Tasks |-> 0]
    /\ current_stack = <<>>
    /\ running_pool = {}
    /\ loop_pc = "top"
    /\ loop_cur = None
    /\ loop_task = None
    /\ cancel_pc = "idle"
    /\ call_pc = [c \in Clients |-> "idle"]
    /\ call_task = [c \in Clients |-> None]
    /\ call_dry = [c \in Clients |-> FALSE]
    /\ call_result = [c \in Clients |-> "none"]
    /\ counter = 0
    /\ id = [t \in Tasks |-> NoId]

InitExecutor ==
    /\ fed = [t \in Tasks |-> <<>>]
    /\ clean_feeds = [t \in Tasks |-> 0]
    /\ frees = [t \in Tasks |-> 0]
    /\ fetch_frees = [t \in Tasks |-> 0]
    /\ saves = [t \in Tasks |-> 0]
    /\ finished_step = [t \in Tasks |-> 0]
    /\ exec_cancels = 0

\* base.py 151: the tasks of recs are created with or without a database
\* record, the others without.
InitRecord(recs) ==
    /\ record \in [Tasks -> {None, "new"}]
    /\ \A t \in Tasks \ recs : record[t] = None
    /\ commits = [t \in Tasks |-> 0]
    /\ poll_raised = [t \in Tasks |-> FALSE]

\* ----------------------------------------------------------------- Cycles
\* The points the permutations of the model move: 0 .. MaxPoint - 1.
MaxPoint == 4
Points == 0 .. (MaxPoint - 1)

Reversed(s) == [i \in 1..Len(s) |-> s[Len(s) + 1 - i]]
SetOf(s) == {s[i] : i \in DOMAIN s}
Min(S) == CHOOSE m \in S : \A x \in S : m <= x

\* sorted(S) of a set of integers.
RECURSIVE Sorted(_)
Sorted(S) == IF S = {} THEN <<>> ELSE <<Min(S)>> \o Sorted(S \ {Min(S)})

\* Python's < on tuples of integers.
RECURSIVE SeqLt(_, _)
SeqLt(s, t) ==
    IF s = <<>> THEN t # <<>>
    ELSE IF t = <<>> THEN FALSE
    ELSE IF Head(s) # Head(t) THEN Head(s) < Head(t)
    ELSE SeqLt(Tail(s), Tail(t))

\* sorted(ret) of a list of tuples.
RECURSIVE SortTuples(_)
SortTuples(s) ==
    IF s = <<>> THEN <<>>
    ELSE LET i == CHOOSE i \in DOMAIN s :
                     \A j \in DOMAIN s : ~SeqLt(s[j], s[i])
         IN <<s[i]>> \o SortTuples(SubSeq(s, 1, i - 1) \o SubSeq(s, i + 1, Len(s)))

\* A dict without entries.
EmptyDict == [x \in {} |-> 0]

\* Cycles(): the identity.
Identity == [_cycles |-> <<>>, _support |-> <<>>, _mapping |-> EmptyDict]

\* permutation_group.py 26-27: the cycle rotated to start at its minimum.
Rotate(cycle) ==
    LET i == CHOOSE i \in DOMAIN cycle : cycle[i] = Min(SetOf(cycle))
    IN SubSeq(cycle, i, Len(cycle)) \o SubSeq(cycle, 1, i - 1)

\* permutation_group.py 13-34: Cycles(*cycles).  A cycle of length 0 or 1
\* is dropped; a later cycle overwrites the mapping of an earlier one.
Cycles(cycles) ==
    IF Len(cycles) = 0 THEN Identity
    ELSE LET kept == SelectSeq(cycles, LAMBDA c : Len(c) > 1)
             ret == [i \in 1..Len(kept) |-> Rotate(kept[i])]
             support == UNION {SetOf(kept[i]) : i \in DOMAIN kept}
             After(c, x) == LET i == CHOOSE i \in DOMAIN c : c[i] = x
                            IN c[(i % Len(c)) + 1]
             LastWith(x) == CHOOSE i \in DOMAIN ret :
                                /\ x \in SetOf(ret[i])
                                /\ \A j \in DOMAIN ret :
                                       x \in SetOf(ret[j]) => j <= i
         IN [_cycles |-> SortTuples(ret),
             _support |-> Sorted(support),
             _mapping |-> [x \in support |-> After(ret[LastWith(x)], x)]]

\* permutation_group.py 39-40
is_identity(self) == Len(self._cycles) = 0

\* permutation_group.py 155: replace on a point.
replace(self, expr) ==
    IF expr \in DOMAIN self._mapping THEN self._mapping[expr] ELSE expr

\* A dict given by its items in insertion order, as a mapping.
AsDict(items) ==
    [k \in {items[i][1] : i \in DOMAIN items} |->
        items[CHOOSE i \in DOMAIN items : items[i][1] = k][2]]

\* permutation_group.py 73-76: the inner loop, which follows k's cycle
\* and pops its points from the dict; the cycle and what is left.
RECURSIVE FollowCycle(_, _, _, _)
FollowCycle(items, k, el, cycle) ==
    IF k = el THEN <<cycle, items>>
    ELSE FollowCycle(SelectSeq(items, LAMBDA p : p[1] # el), k,
                     AsDict(items)[el], Append(cycle, el))

\* permutation_group.py 71-77: the outer loop; popitem() takes the item
\* inserted last.
RECURSIVE PopCycles(_, _)
PopCycles(items, cycles) ==
    IF Len(items) = 0 THEN cycles
    ELSE LET last == items[Len(items)]
             r == FollowCycle(SubSeq(items, 1, Len(items) - 1),
                              last[1], last[2], <<last[1]>>)
         IN PopCycles(r[2], Append(cycles, r[1]))

\* permutation_group.py 62-81
_from_sorted_mapping(mapping) ==
    IF Len(mapping) = 0 THEN Identity
    ELSE [_cycles |-> PopCycles(mapping, <<>>),
          _support |-> Reversed([i \in DOMAIN mapping |-> mapping[i][1]]),
          _mapping |-> AsDict(mapping)]

\* The product that applies the right factor first.
mul_M(self, other) ==
    LET support == Reversed(Sorted(SetOf(self._support \o other._support)))
        items == [i \in DOMAIN support |->
                    <<support[i], replace(self, replace(other, support[i]))>>]
    IN _from_sorted_mapping(SelectSeq(items, LAMBDA p : p[1] # p[2]))

\* permutation_group.py 48-60: Cycles.__mul__
mul(self, other) ==
    LET support == Reversed(Sorted(SetOf(self._support \o other._support)))
        items == [i \in DOMAIN support |->
                    <<support[i], replace(other, replace(self, support[i]))>>]
    IN _from_sorted_mapping(SelectSeq(items, LAMBDA p : p[1] # p[2]))

\* permutation_group.py 98-106
inv(self) ==
    IF Len(self._cycles) = 0 THEN Identity
    ELSE [_cycles |-> [i \in DOMAIN self._cycles |->
                          <<Head(self._cycles[i])>>
                              \o Reversed(Tail(self._cycles[i]))],
          _support |-> self._support,
          _mapping |-> [v \in {self._mapping[k] : k \in DOMAIN self._mapping}
                          |-> CHOOSE k \in DOMAIN self._mapping :
                                  self._mapping[k] = v]]

\* The tuples of distinct points of P, of every length from 1.
CycleTuples(P) ==
    {c \in UNION {[1..n -> P] : n \in 1..Cardinality(P)} :
        \A i, j \in DOMAIN c : c[i] = c[j] => i = j}

\* The lists of pairwise disjoint cycles over the points outside used.
RECURSIVE CycleLists(_)
CycleLists(used) ==
    {<<>>} \cup
    UNION {{<<c>> \o rest : rest \in CycleLists(used \cup SetOf(c))} :
              c \in CycleTuples(Points \ used)}

\* Every permutation of Points, as the constructor builds it from any
\* way of writing it.
AllCycles == {Cycles(cs) : cs \in CycleLists({})}

InitPermIdle ==
    /\ perm_a = Identity /\ perm_b = Identity
    /\ perm_prod = Identity /\ perm_inv = Identity
    /\ perm_right = Identity /\ perm_left = Identity
    /\ perm_done = {}

\* -------------------------------------------------------- Scheduler.login
\* How many sessions the model lets clients open.
MaxSessions == 2
SystemUser == "BIG BROTHER"
UserNames == {SystemUser, "alice"}
\* Scheduler.__uuid, which only the scheduler holds.
Uuid == "uuid"
UserPasswords == {"pw1", "pw2"}
Absent == "absent"
\* A user created by User(name=username) alone.
NoPassword == "no password"

\* User.verify: the stored password is the one given; a user without a
\* password verifies none.
verify(stored, password) == stored # NoPassword /\ stored = password

IsSystemLogin_M(username, password) == username = SystemUser

\* scheduler.py 243
IsSystemLogin(username, password) ==
    username = SystemUser /\ password = Uuid

\* scheduler.py 241-257: the user table afterwards and what is raised.
verify_user(us, username, password) ==
    IF IsSystemLogin(username, password)
    THEN [users |-> IF us[username] = Absent
                    THEN [us EXCEPT ![username] = NoPassword] ELSE us,
          raised |-> None]
    ELSE IF us[username] = Absent
    THEN [users |-> us, raised |-> "User not found"]
    ELSE IF ~verify(us[username], password)
    THEN [users |-> us, raised |-> "Wrong password"]
    ELSE [users |-> us, raised |-> None]

InitLoginIdle ==
    /\ users = [u \in UserNames |-> Absent]
    /\ sessions = 0
    /\ login_user = None
    /\ login_pw = None
    /\ login_result = None

LtIdleRec == [at |-> 0 - 1, priority |-> 0, created_time |-> 1]

InitLtIdle ==
    /\ lt_self = LtIdleRec
    /\ lt_other = LtIdleRec
    /\ lt_result = "none"

InitBootIdle ==
    /\ executor = None
    /\ eng = None
    /\ debug_mode = FALSE
    /\ submit_loops = 0
    /\ waiting_loops = 0
    /\ boot_calls = 0
    /\ boot_args = None

InitLibIdle ==
    /\ lib_parents = <<>>
    /\ lib_name = None
    /\ lib_gate = <<>>
    /\ lib_opaque = <<>>
    /\ lib_done = {}

InitOffIdle ==
    /\ InitLtIdle /\ InitLoginIdle /\ InitPermIdle
    /\ InitBootIdle /\ InitLibIdle

\* Tasks created in the order A, B, C; B is nested in A and C in B.
InitNesting ==
    /\ parent = [t \in Tasks |-> IF t = "B" THEN "A"
                                  ELSE IF t = "C" THEN "B" ELSE None]
    /\ created_time = [t \in Tasks |-> IF t = "A" THEN 1
                                        ELSE IF t = "B" THEN 2 ELSE 3]

\* What every scenario shares: one client thread, immediate tasks of
\* equal priority.
InitCommon ==
    /\ clients = {"u1"}
    /\ InitNesting
    /\ priority = [t \in Tasks |-> 0]
    /\ at = [t \in Tasks |-> 0 - 1]
    /\ now = 1
    /\ InitRuntime /\ InitScheduler /\ InitExecutor /\ InitOffIdle

\* Two threads calling Scheduler.submit on two tasks; nothing else runs.
InitId ==
    /\ universe = {"A", "B"}
    /\ clients = Clients
    /\ with_feedback = [t \in Tasks |-> t = "A"]
    /\ faulty = {}
    /\ InitRecord({})
    /\ InitNesting
    /\ priority = [t \in Tasks |-> 0]
    /\ at = [t \in Tasks |-> 0 - 1]
    /\ now = 1
    /\ InitRuntime /\ InitScheduler /\ InitExecutor /\ InitOffIdle

\* One task, compiled ahead of submission or with hardware feedback, on
\* an executor whose calls may raise.
Init ==
    /\ universe = {"A"}
    /\ \E fb \in BOOLEAN : with_feedback = [t \in Tasks |-> fb]
    /\ faulty = {"A"}
    /\ InitRecord({"A"})
    /\ InitCommon

\* A parent A compiling with hardware feedback and its child B.
InitNest ==
    /\ universe = {"A", "B"}
    /\ with_feedback = [t \in Tasks |-> t = "A"]
    /\ faulty = {"A"}
    /\ InitRecord({})
    /\ InitCommon

\* A chain of three nested tasks, each compiling with feedback.
InitChain ==
    /\ universe = {"A", "B", "C"}
    /\ with_feedback = [t \in Tasks |-> TRUE]
    /\ faulty = {}
    /\ InitRecord({})
    /\ InitCommon

\* ------------------------------------------------------ Scheduler.submit
\* scheduler.py 328-330: the low 64 bits of the name-based UUID of the
\* n-th counter value under the scheduler's own namespace UUID.  The hash
\* is represented by its argument: distinct counter values are taken to
\* give distinct ids, none of them the sentinel -1.
generate_task_id(n) == n

\* Mutant: only a dispatched task counts as submitted.
AlreadySubmitted_M(t) == status[t] \notin {NotSubmitted, "pending", "compiling"}

\* scheduler.py 402
AlreadySubmitted(t) == status[t] # NotSubmitted

\* Mutant: a call that draws its id before it checks the status.
RaiseSubmitted_M(c) ==
    /\ call_result' = [call_result EXCEPT ![c] = "raised"]
    /\ counter' = counter + 1
    /\ UNCHANGED <<call_pc, call_task, call_dry, id>>

\* scheduler.py 403-405: RuntimeError, raised before anything is written.
RaiseSubmitted(c) ==
    /\ call_result' = [call_result EXCEPT ![c] = "raised"]
    /\ UNCHANGED <<call_pc, call_task, call_dry, idVars>>

\* scheduler.py 398-405: the status check under the status lock; the
\* call either raises RuntimeError or goes on.
SubmitBegin(c, t, dry) ==
    /\ c \in clients
    /\ t \in universe
    /\ call_pc[c] = "idle"
    /\ IF AlreadySubmitted(t)
       THEN RaiseSubmitted(c)
       ELSE /\ call_result' = [call_result EXCEPT ![c] = "none"]
            /\ call_pc' = [call_pc EXCEPT ![c] = "mid"]
            /\ call_task' = [call_task EXCEPT ![c] = t]
            /\ call_dry' = [call_dry EXCEPT ![c] = dry]
            /\ UNCHANGED idVars
    /\ UNCHANGED <<cfgVars, taskVars, loopVars, collVars, cancelVars,
                   execVars, recVars, offVars>>

\* Mutant: the compile activity of every task starts at Scheduler.submit.
CompileAtSubmit_M(t) == TRUE

\* scheduler.py 425: only a program without hardware feedback is compiled
\* ahead of its dispatch.
CompileAtSubmit(t) == ~with_feedback[t]

\* Mutant: a submit that enqueues whatever dry_run says.
DryRun_M(c) == FALSE

\* scheduler.py 431-432: if dry_run: return task
DryRun(c) == call_dry[c]

\* scheduler.py 406-441: fresh thread table, compile start, status, enqueue.
SubmitEnd(c) ==
    /\ c \in clients
    /\ call_pc[c] = "mid"
    /\ LET t == call_task[c] IN
       /\ counter' = counter + 1
       /\ id' = [id EXCEPT ![t] = generate_task_id(counter)]
       /\ kill' = [kill EXCEPT ![t] = {}]
       /\ UNCHANGED late_cancel
       /\ IF CompileAtSubmit(t)
          THEN /\ compile_pc' = [compile_pc EXCEPT ![t] = "alive"]
               /\ SetStatus(t, "compiling")
          ELSE /\ compile_pc' = compile_pc
               /\ SetStatus(t, "pending")
       /\ task_queue' = IF DryRun(c) THEN task_queue
                        ELSE Put(task_queue, t)
    /\ call_pc' = [call_pc EXCEPT ![c] = "idle"]
    /\ call_task' = [call_task EXCEPT ![c] = None]
    /\ call_dry' = [call_dry EXCEPT ![c] = FALSE]
    /\ call_result' = [call_result EXCEPT ![c] = "ok"]
    /\ UNCHANGED <<cfgVars, step, steps, submit_pc, submit_i, fetch_pc,
                   loopVars, current_stack, running_pool, cancelVars,
                   execVars, recVars, offVars>>

\* ------------------------------------------------------ compile activity
\* Task.main: one sweep item per step, the kill signal checked per item;
\* each item appends a step to prog.steps and advances runtime.step.
CompileStep(t) ==
    /\ compile_pc[t] = "alive"
    /\ IF "compile" \in kill[t] \/ steps[t] >= NSteps
       THEN /\ compile_pc' = [compile_pc EXCEPT ![t] = "done"]
            /\ UNCHANGED <<step, steps>>
       ELSE /\ steps' = [steps EXCEPT ![t] = @ + 1]
            /\ step' = [step EXCEPT ![t] = @ + 1]
            /\ UNCHANGED compile_pc
    /\ UNCHANGED <<cfgVars, statusVars, killVars, submit_pc, submit_i, fetch_pc,
                   loopVars, collVars, cancelVars, callVars, execVars,
                   recVars, offVars>>

\* ------------------------------------------------------- submit activity
\* What an executor call made for task t can do.
Raises(t) == IF t \in faulty THEN BOOLEAN ELSE {FALSE}

\* scheduler.py 128-133: executor.feed of step i; a feed that raises ends
\* the thread, nothing in submit_thread catches it.
Feed(t) ==
    \E raised \in Raises(t) :
      IF raised
      THEN /\ submit_pc' = [submit_pc EXCEPT ![t] = "crashed"]
           /\ UNCHANGED <<submit_i, fed, clean_feeds>>
      ELSE /\ fed' = [fed EXCEPT ![t] = Append(@, submit_i[t])]
           /\ submit_i' = [submit_i EXCEPT ![t] = @ + 1]
           /\ submit_pc' = [submit_pc EXCEPT ![t] = "top"]
           /\ UNCHANGED clean_feeds

\* scheduler.py 76-80, 134: leaving the loop, one feed at step index -2.
clean_side_effects(t) ==
    \E raised \in Raises(t) :
      IF raised
      THEN /\ submit_pc' = [submit_pc EXCEPT ![t] = "crashed"]
           /\ UNCHANGED <<submit_i, fed, clean_feeds>>
      ELSE /\ clean_feeds' = [clean_feeds EXCEPT ![t] = @ + 1]
           /\ submit_pc' = [submit_pc EXCEPT ![t] = "done"]
           /\ UNCHANGED <<submit_i, fed>>

\* Mutant: a submit activity that never sees its kill signal.
SubmitKilled_M(t) == FALSE

\* scheduler.py 119: task.runtime.threads['submit']._kill_event.is_set()
SubmitKilled(t) == "submit" \in kill[t]

\* scheduler.py 119-133: the kill check and the left operand i >= step
\* of the exit test; when it is false the step i exists and is fed.
SubmitThreadTop(t) ==
    /\ submit_pc[t] = "top"
    /\ IF SubmitKilled(t)
       THEN clean_side_effects(t)
       ELSE IF submit_i[t] >= step[t]
       THEN /\ submit_pc' = [submit_pc EXCEPT ![t] = "alive?"]
            /\ UNCHANGED <<submit_i, fed, clean_feeds>>
       ELSE Feed(t)
    /\ UNCHANGED <<cfgVars, statusVars, killVars, step, steps, compile_pc, fetch_pc,
                   loopVars, collVars, cancelVars, callVars, frees,
                   fetch_frees, saves, finished_step, exec_cancels, recVars, offVars>>

\* scheduler.py 123-133: the right operand compile.is_alive() of the exit
\* test, read after the left one; then wait for step i or feed it.
SubmitThreadAlive(t) ==
    /\ submit_pc[t] = "alive?"
    /\ IF ~IsAlive(compile_pc[t])
       THEN clean_side_effects(t)
       ELSE IF submit_i[t] = steps[t]
       THEN /\ submit_pc' = [submit_pc EXCEPT ![t] = "top"]
            /\ UNCHANGED <<submit_i, fed, clean_feeds>>
       ELSE Feed(t)
    /\ UNCHANGED <<cfgVars, statusVars, killVars, step, steps, compile_pc, fetch_pc,
                   loopVars, collVars, cancelVars, callVars, frees,
                   fetch_frees, saves, finished_step, exec_cancels, recVars, offVars>>

\* -------------------------------------------------------- fetch activity
\* Mutant: a test of the number of results alone.
_is_finished_M(t, n) == n >= step[t]

\* scheduler.py 33-39, with finished_step results fetched
_is_finished(t, n) ==
    status[t] \notin WaitingStatus /\ n >= step[t]

\* Mutant: a fetch activity that never sees its kill signal.
KillObserved_M(t) == FALSE

\* scheduler.py 45: threading.current_thread()._kill_event.is_set()
KillObserved(t) == "fetch" \in kill[t]

\* scheduler.py 45-49: the kill check at the top of a poll iteration;
\* 'cancelled' and break, which leads to the finally clause.
FetchTop(t) ==
    /\ fetch_pc[t] = "top"
    /\ IF KillObserved(t)
       THEN /\ SetStatus(t, "cancelled")
            /\ fetch_pc' = [fetch_pc EXCEPT ![t] = "finally"]
       ELSE /\ fetch_pc' = [fetch_pc EXCEPT ![t] = "poll"]
            /\ UNCHANGED statusVars
    /\ UNCHANGED <<cfgVars, killVars, step, steps, compile_pc, submit_pc,
                   submit_i, loopVars, collVars, cancelVars, callVars,
                   execVars, recVars, offVars>>

\* Mutant: an except clause that does not release the hardware.
ExceptClause_M(t) ==
    /\ SetStatus(t, "failed")
    /\ UNCHANGED fetch_frees

\* scheduler.py 57-61: 'failed' under the status lock, the log entry, free.
ExceptClause(t) ==
    /\ SetStatus(t, "failed")
    /\ fetch_frees' = [fetch_frees EXCEPT ![t] = @ + 1]

FetchOutcomes(t) ==
    IF t \in faulty THEN {"returns", "fetch raises", "save raises"}
    ELSE {"returns"}

\* scheduler.py 51-61: _is_finished on the results of the steps the
\* hardware has completed so far (any number of the steps fed), save,
\* 'finished'; fetching the results or save may raise, which the except
\* clause turns into 'failed' and free; all of them lead to the finally
\* clause.
FetchPoll(t) ==
    /\ fetch_pc[t] = "poll"
    /\ \E outcome \in FetchOutcomes(t), n \in 0..Len(fed[t]) :
         IF outcome = "fetch raises"
         THEN /\ ExceptClause(t)
              /\ poll_raised' = [poll_raised EXCEPT ![t] = TRUE]
              /\ fetch_pc' = [fetch_pc EXCEPT ![t] = "finally"]
              /\ UNCHANGED <<saves, finished_step>>
         ELSE IF ~_is_finished(t, n)
         THEN /\ fetch_pc' = [fetch_pc EXCEPT ![t] = "top"]
              /\ UNCHANGED <<statusVars, saves, fetch_frees, finished_step,
                             poll_raised>>
         ELSE /\ saves' = [saves EXCEPT ![t] = @ + 1]
              /\ fetch_pc' = [fetch_pc EXCEPT ![t] = "finally"]
              /\ IF outcome = "save raises"
                 THEN /\ ExceptClause(t)
                      /\ poll_raised' = [poll_raised EXCEPT ![t] = TRUE]
                      /\ UNCHANGED finished_step
                 ELSE /\ SetStatus(t, "finished")
                      /\ finished_step' = [finished_step EXCEPT ![t] = n]
                      /\ UNCHANGED <<fetch_frees, poll_raised>>
    /\ UNCHANGED <<cfgVars, killVars, step, steps, compile_pc, submit_pc,
                   submit_i, loopVars, collVars, cancelVars, callVars, fed,
                   clean_feeds, frees, exec_cancels, record, commits, offVars>>

\* What the attach-and-commit of the record of task t can do.
CommitOutcomes(t) ==
    IF t \in faulty THEN {"committed", "commit raised"} ELSE {"committed"}

\* Mutant: a persistence step that commits nothing.
Persist_M(t) == UNCHANGED recVars

\* scheduler.py 64-70: result and program attached to the record, commit;
\* an exception of either is logged and goes no further.
Persist(t) ==
    \E outcome \in CommitOutcomes(t) :
       /\ commits' = [commits EXCEPT ![t] = @ + 1]
       /\ record' = [record EXCEPT ![t] = outcome]
       /\ UNCHANGED poll_raised

\* Mutant: a finally clause that turns a failed commit into 'failed'.
FetchFinally_M(t) ==
    /\ fetch_pc[t] = "finally"
    /\ IF record[t] # None
       THEN /\ Persist(t)
            /\ IF record'[t] = "commit raised" THEN SetStatus(t, "failed")
               ELSE UNCHANGED statusVars
       ELSE UNCHANGED <<recVars, statusVars>>
    /\ fetch_pc' = [fetch_pc EXCEPT ![t] = "done"]
    /\ UNCHANGED <<cfgVars, killVars, step, steps, compile_pc,
                   submit_pc, submit_i, loopVars, collVars, cancelVars,
                   callVars, execVars, offVars>>

\* scheduler.py 62-73: the finally clause, then the end of the thread.
FetchFinally(t) ==
    /\ fetch_pc[t] = "finally"
    /\ IF record[t] # None THEN Persist(t) ELSE UNCHANGED recVars
    /\ fetch_pc' = [fetch_pc EXCEPT ![t] = "done"]
    /\ UNCHANGED <<cfgVars, statusVars, killVars, step, steps, compile_pc,
                   submit_pc, submit_i, loopVars, collVars, cancelVars,
                   callVars, execVars, offVars>>

\* ------------------------------------------------------------ submit_loop
\* scheduler.py 86: the length test of the stack.
LoopTop ==
    /\ loop_pc = "top"
    /\ loop_pc' = IF Len(current_stack) > 0 THEN "pop" ELSE "get"
    /\ UNCHANGED <<cfgVars, taskVars, loop_cur, loop_task, collVars,
                   cancelVars, callVars, execVars, recVars, offVars>>

\* scheduler.py 87: current_stack.pop(); IndexError ends the loop thread.
LoopPop ==
    /\ loop_pc = "pop"
    /\ IF current_stack = <<>>
       THEN /\ loop_pc' = "crashed"
            /\ UNCHANGED <<loop_cur, current_stack>>
       ELSE /\ loop_cur' = Top(current_stack)
            /\ current_stack' = Pop(current_stack)
            /\ loop_pc' = "alive?"
    /\ UNCHANGED <<cfgVars, taskVars, loop_task, task_queue, running_pool,
                   cancelVars, callVars, execVars, recVars, offVars>>

\* Mutant: the update without the test of the current status.
MarkRunning_M(t) == SetStatus(t, "running")

\* scheduler.py 92-96: the status update under the status lock.
MarkRunning(t) ==
    IF status[t] \in WaitingStatus THEN SetStatus(t, "running")
    ELSE UNCHANGED statusVars

\* scheduler.py 89-96: push the task back while its submit thread lives,
\* else mark it running.
LoopAlive ==
    /\ loop_pc = "alive?"
    /\ IF IsAlive(submit_pc[loop_cur])
       THEN /\ current_stack' = Append(current_stack, loop_cur)
            /\ UNCHANGED statusVars
       ELSE /\ MarkRunning(loop_cur)
            /\ UNCHANGED current_stack
    /\ loop_pc' = "get"
    /\ loop_cur' = None
    /\ UNCHANGED <<cfgVars, killVars, step, steps, compile_pc, submit_pc,
                   submit_i, fetch_pc, loop_task, task_queue, running_pool,
                   cancelVars, callVars, execVars, recVars, offVars>>

\* scheduler.py 98-102: task_queue.get_nowait(), or sleep and start over.
LoopGet ==
    /\ loop_pc = "get"
    /\ IF QueueTasks = {}
       THEN /\ loop_pc' = "top"
            /\ UNCHANGED <<loop_task, task_queue>>
       ELSE \E t \in QueueHeads :
              /\ loop_task' = t
              /\ task_queue' = Take(task_queue, t)
              /\ loop_pc' = "check"
    /\ UNCHANGED <<cfgVars, taskVars, loop_cur, current_stack, running_pool,
                   cancelVars, callVars, execVars, recVars, offVars>>

\* scheduler.py 105
NotYetDue(t) == at[t] > 0 /\ at[t] > now

\* Mutant: a loop that does not look at the status.
IsCancelled_M(t) == FALSE

\* scheduler.py 103
IsCancelled(t) == status[t] = "cancelled"

\* scheduler.py 103-108: drop a cancelled task, put back a task that is
\* not due, dispatch on an empty stack, else look at the top of the stack.
LoopCheck ==
    /\ loop_pc = "check"
    /\ IF IsCancelled(loop_task)
       THEN /\ loop_pc' = "top"
            /\ loop_task' = None
            /\ UNCHANGED task_queue
       ELSE IF NotYetDue(loop_task)
       THEN /\ task_queue' = Put(task_queue, loop_task)
            /\ loop_pc' = "top"
            /\ loop_task' = None
       ELSE /\ loop_pc' = IF Len(current_stack) = 0 THEN "submit"
                          ELSE "top?"
            /\ UNCHANGED <<loop_task, task_queue>>
    /\ UNCHANGED <<cfgVars, taskVars, loop_cur, current_stack, running_pool,
                   cancelVars, callVars, execVars, recVars, offVars>>

\* Mutant: a loop that dispatches on top of any task.
Contained_M(t, stack) == TRUE

\* scheduler.py 109: the containment test against the top of the stack.
Contained(t, stack) == is_children_of(t, Top(stack))

\* scheduler.py 109-112: current_stack[-1] (IndexError ends the loop
\* thread), dispatch a child of the top task, put back any other task.
LoopCheckTop ==
    /\ loop_pc = "top?"
    /\ IF current_stack = <<>>
       THEN /\ loop_pc' = "crashed"
            /\ UNCHANGED <<loop_task, task_queue>>
       ELSE IF Contained(loop_task, current_stack)
       THEN /\ loop_pc' = "submit"
            /\ UNCHANGED <<loop_task, task_queue>>
       ELSE /\ task_queue' = Put(task_queue, loop_task)
            /\ loop_pc' = "top"
            /\ loop_task' = None
    /\ UNCHANGED <<cfgVars, taskVars, loop_cur, current_stack, running_pool,
                   cancelVars, callVars, execVars, recVars, offVars>>

\* ---------------------------------------------------- dispatch (submit)
\* Thread.start() raises RuntimeError on a thread that was started before.
Started(pc) == pc # "idle"

\* Mutant: a dispatch that releases nothing.
DispatchFree_M(t) == UNCHANGED frees

\* scheduler.py 139: executor.free(task.id)
DispatchFree(t) == frees' = [frees EXCEPT ![t] = @ + 1]

\* A second dispatch of a task whose threads were started by the first
\* ends the loop thread at the start() that raises (143 or 147).
\* scheduler.py 139-147: free, 'submiting', compile start with feedback,
\* push on the stack, start of the submit thread.
submit ==
    /\ loop_pc = "submit"
    /\ DispatchFree(loop_task)
    /\ SetStatus(loop_task, "submiting")
    /\ IF with_feedback[loop_task] /\ Started(compile_pc[loop_task])
       THEN /\ loop_pc' = "crashed"
            /\ UNCHANGED <<compile_pc, current_stack, submit_pc, submit_i>>
       ELSE /\ compile_pc' = IF with_feedback[loop_task]
                             THEN [compile_pc EXCEPT ![loop_task] = "alive"]
                             ELSE compile_pc
            /\ current_stack' = Append(current_stack, loop_task)
            /\ IF Started(submit_pc[loop_task])
               THEN /\ loop_pc' = "crashed"
                    /\ UNCHANGED <<submit_pc, submit_i>>
               ELSE /\ submit_pc' = [submit_pc EXCEPT ![loop_task] = "top"]
                    /\ submit_i' = [submit_i EXCEPT ![loop_task] = 0]
                    /\ loop_pc' = "pool"
    /\ UNCHANGED <<cfgVars, killVars, step, steps, fetch_pc, loop_cur,
                   loop_task, task_queue, running_pool, cancelVars,
                   callVars, fed, clean_feeds, fetch_frees, saves,
                   finished_step, exec_cancels, recVars, offVars>>

\* scheduler.py 149: register in the running pool.
submit_pool ==
    /\ loop_pc = "pool"
    /\ running_pool' = running_pool \cup {loop_task}
    /\ loop_pc' = "fetch"
    /\ UNCHANGED <<cfgVars, taskVars, loop_cur, loop_task, task_queue,
                   current_stack, cancelVars, callVars, execVars, recVars, offVars>>

\* scheduler.py 150: start the fetch thread; back to the top of the loop.
submit_fetch ==
    /\ loop_pc = "fetch"
    /\ fetch_pc' = [fetch_pc EXCEPT ![loop_task] = "top"]
    /\ loop_pc' = "top"
    /\ loop_task' = None
    /\ UNCHANGED <<cfgVars, statusVars, killVars, step, steps, compile_pc, submit_pc,
                   submit_i, loop_cur, collVars, cancelVars, callVars,
                   execVars, recVars, offVars>>

\* ----------------------------------------------------------- waiting_loop
\* scheduler.py 153-162 (debug_mode False)
waiting_loop(t) ==
    /\ t \in running_pool
    /\ ~IsAlive(fetch_pc[t])
    /\ running_pool' = running_pool \ {t}
    /\ UNCHANGED <<cfgVars, taskVars, loopVars, task_queue, current_stack,
                   cancelVars, callVars, execVars, recVars, offVars>>

\* ------------------------------------------------------- Scheduler.cancel
\* A call of Scheduler.cancel().
CancelCall ==
    /\ cancel_pc \in {"idle", "raised"}
    /\ cancel_pc' = "queue"
    /\ UNCHANGED <<cfgVars, taskVars, loopVars, collVars, callVars,
                   execVars, recVars, offVars>>

\* scheduler.py 296-298: one turn of the loop over the pending queue.
CancelQueue ==
    /\ cancel_pc = "queue"
    /\ IF QueueTasks = {}
       THEN /\ cancel_pc' = "stack"
            /\ UNCHANGED <<task_queue, killVars>>
       ELSE \E t \in QueueHeads :
              /\ task_queue' = Take(task_queue, t)
              /\ kill' = TaskCancelled(kill, status, t)
              /\ late_cancel' = LateCancelled(late_cancel, kill, status, t)
              /\ UNCHANGED cancel_pc
    /\ UNCHANGED <<cfgVars, statusVars, step, steps, compile_pc, submit_pc,
                   submit_i, fetch_pc, loopVars, current_stack, running_pool,
                   callVars, execVars, recVars, offVars>>

\* scheduler.py 299-301: one turn of the loop over the stack.
CancelStack ==
    /\ cancel_pc = "stack"
    /\ IF current_stack = <<>>
       THEN /\ cancel_pc' = "executor"
            /\ UNCHANGED <<current_stack, killVars>>
       ELSE /\ current_stack' = Pop(current_stack)
            /\ kill' = TaskCancelled(kill, status, Top(current_stack))
            /\ late_cancel' = LateCancelled(late_cancel, kill, status,
                                            Top(current_stack))
            /\ UNCHANGED cancel_pc
    /\ UNCHANGED <<cfgVars, statusVars, step, steps, compile_pc, submit_pc,
                   submit_i, fetch_pc, loopVars, task_queue, running_pool,
                   callVars, execVars, recVars, offVars>>

\* scheduler.py 302: self.executor.cancel()
CancelExecutor ==
    /\ cancel_pc = "executor"
    /\ exec_cancels' = 1
    /\ cancel_pc' = "pool"
    /\ UNCHANGED <<cfgVars, taskVars, loopVars, collVars, callVars, fed,
                   clean_feeds, frees, fetch_frees, saves, finished_step,
                   recVars, offVars>>

\* scheduler.py 303-305: the attribute self._waiting_result is never
\* assigned (__init__ 166-174 sets _waiting_pool): reading it raises
\* AttributeError and the running pool is left as it is.
CancelPool ==
    /\ cancel_pc = "pool"
    /\ cancel_pc' = "raised"
    /\ UNCHANGED <<cfgVars, taskVars, loopVars, collVars, callVars,
                   execVars, recVars, offVars>>

\* ------------------------------------------------------------ Task.cancel
\* A session cancels one task: the kill signal of each of its activities.
TaskCancel(t) ==
    /\ t \in universe
    /\ kill' = TaskCancelled(kill, status, t)
    /\ kill' # kill
    /\ late_cancel' = LateCancelled(late_cancel, kill, status, t)
    /\ UNCHANGED <<cfgVars, statusVars, step, steps, compile_pc, submit_pc,
                   submit_i, fetch_pc, loopVars, collVars, cancelVars,
                   callVars, execVars, recVars, offVars>>

\* ------------------------------------------------------------------- Next
\* The client calling Scheduler.submit.
Client ==
    \/ \E c \in Clients, t \in Tasks, dry \in BOOLEAN : SubmitBegin(c, t, dry)
    \/ \E c \in Clients : SubmitEnd(c)

\* The three activities of every task.
TaskThreads ==
    \/ \E t \in Tasks : CompileStep(t)
    \/ \E t \in Tasks : SubmitThreadTop(t)
    \/ \E t \in Tasks : SubmitThreadAlive(t)
    \/ \E t \in Tasks : FetchFinally(t)
    \/ \E t \in Tasks : FetchTop(t)
    \/ \E t \in Tasks : FetchPoll(t)

\* submit_loop with dispatch, short of the containment test.
SubmitLoop ==
    \/ LoopTop \/ LoopPop \/ LoopAlive \/ LoopGet \/ LoopCheck
    \/ submit \/ submit_pool \/ submit_fetch

SchedulerCancel ==
    \/ CancelCall \/ CancelQueue \/ CancelStack \/ CancelExecutor
    \/ CancelPool

\* One task: the stack is empty whenever the loop holds a queued task, so
\* the containment test of line 109 is never reached.
Next ==
    \/ Client
    \/ TaskThreads
    \/ SubmitLoop
    \/ \E t \in Tasks : waiting_loop(t)
    \/ SchedulerCancel
    \/ \E t \in Tasks : TaskCancel(t)

Spec == Init /\ [][Next]_vars

\* Nested tasks without cancellation.
NextNest ==
    \/ Client
    \/ TaskThreads
    \/ SubmitLoop \/ LoopCheckTop
    \/ \E t \in Tasks : waiting_loop(t)

SpecNest == InitNest /\ [][NextNest]_vars

\* Three nested tasks and a concurrent Scheduler.cancel(), on the
\* schedules in which the tasks' own activities have not run yet: every
\* behaviour of SpecChain is a behaviour of the whole system.
NextChain ==
    \/ Client
    \/ SubmitLoop \/ LoopCheckTop
    \/ SchedulerCancel

SpecChain == InitChain /\ [][NextChain]_vars

\* ----------------------------------------------- Task.__lt__ in isolation
AtValues == {0 - 1, 1, 2}
PriorityValues == {0, 1}
CreatedValues == {1, 2}
LtRecs == [at : AtValues, priority : PriorityValues,
           created_time : CreatedValues]

\* Two arbitrary tasks; the scheduler holds no task.
InitLt ==
    /\ universe = {}
    /\ with_feedback = [t \in Tasks |-> FALSE]
    /\ faulty = {}
    /\ clients = {"u1"}
    /\ InitNesting
    /\ priority = [t \in Tasks |-> 0]
    /\ at = [t \in Tasks |-> 0 - 1]
    /\ now = 1
    /\ InitRuntime /\ InitScheduler /\ InitExecutor
    /\ record = [t \in Tasks |-> None]
    /\ commits = [t \in Tasks |-> 0]
    /\ poll_raised = [t \in Tasks |-> FALSE]
    /\ lt_self \in LtRecs
    /\ lt_other \in LtRecs
    /\ lt_result = "none"
    /\ InitLoginIdle /\ InitPermIdle /\ InitBootIdle /\ InitLibIdle

\* The evaluation of lt_self < lt_other.
Compare ==
    /\ lt_result = "none"
    /\ lt_result' = IF Lt(lt_self, lt_other) THEN "True" ELSE "False"
    /\ UNCHANGED <<cfgVars, taskVars, loopVars, collVars, cancelVars,
                   callVars, execVars, recVars, lt_self,
                   lt_other, loginVars, permVars, bootVars, libVars>>

NextLt == Compare

SpecLt == InitLt /\ [][NextLt]_vars

\* ------------------------------------------ the submission loop, fairly
\* A (immediate, priority 0) with its child B (immediate, priority 1) and
\* an unrelated task C that is immediate or scheduled for later and that
\* orders before or after both; all compile with hardware feedback.
InitFair ==
    /\ universe = {"A", "B", "C"}
    /\ clients = {"u1"}
    /\ with_feedback = [t \in Tasks |-> TRUE]
    /\ faulty = {}
    /\ InitRecord({})
    /\ parent = [t \in Tasks |-> IF t = "B" THEN "A" ELSE None]
    /\ created_time = [t \in Tasks |-> IF t = "A" THEN 1
                                        ELSE IF t = "B" THEN 2 ELSE 3]
    /\ \E p \in {0 - 1, 2} :
          priority = [t \in Tasks |-> IF t = "A" THEN 0
                                      ELSE IF t = "B" THEN 1 ELSE p]
    /\ \E a \in {0 - 1, 2} :
          at = [t \in Tasks |-> IF t = "C" THEN a ELSE 0 - 1]
    /\ now = 1
    /\ InitRuntime /\ InitScheduler /\ InitExecutor /\ InitOffIdle

\* The schedules on which a dispatched task streams no step and does not
\* end: its compile activity waits (a parent for the result of its child),
\* its submit and fetch activities go round their loops without effect.
\* The submission loop is a thread of its own that never blocks.
NextFair ==
    \/ Client
    \/ SubmitLoop \/ LoopCheckTop

SpecFair ==
    InitFair /\ [][NextFair]_vars /\ WF_vars(SubmitLoop \/ LoopCheckTop)

\* ------------------------------------------------- Scheduler.submit alone
NextId == Client

SpecId == InitId /\ [][NextId]_vars

\* ================================================================ claims

\* ---- C1
Transitions ==
    {<<NotSubmitted, "pending">>, <<NotSubmitted, "compiling">>,
     <<"pending", "submiting">>, <<"compiling", "submiting">>,
     <<"submiting", "running">>, <<"running", "finished">>}
    \cup ((StatusSet \ TerminalStatus) \X {"failed", "cancelled"})

C2_SubmitOnlyNotSubmitted ==
    [][\A c \in Clients :
         (call_pc[c] = "idle" /\ call_pc'[c] = "mid")
            => status[call_task'[c]] = NotSubmitted]_vars

\* A submit raised for a task whose first submit was a dry run (it has a
\* status but was never enqueued: no cancel ever took it from the queue).
C2_Witness ==
    /\ call_result["u1"] = "raised"
    /\ status["A"] \in {"pending", "compiling"}
    /\ task_queue["A"] = 0
    /\ loop_task # "A"
    /\ cancel_pc = "idle"

\* ---- C6
\* C6: a < b is the lexicographic comparison of (at, priority,
\* created_time) of a with the same triple of b.
C6_Lexicographic ==
    lt_result # "none" =>
       (lt_result = "True") =
          TupleLt(<<lt_self.at, lt_self.priority, lt_self.created_time>>,
                  <<lt_other.at, lt_other.priority, lt_other.created_time>>)

\* ---- C3
\* C3: a task in a terminal status whose submit activity has ended has had
\* its side-effect restoration batch (the feed at step index -2) fed
\* exactly once, also when one of its feed calls raised.
C3_CleanupExactlyOnce ==
    \A t \in Tasks :
       (status[t] \in TerminalStatus /\ submit_pc[t] \in {"done", "crashed"})
          => clean_feeds[t] = 1

C5_PushOnParent ==
    [][(loop_pc = "submit" /\ loop_pc' = "pool")
          => (current_stack = <<>>
              \/ is_children_of(loop_task, Top(current_stack)))]_vars

\* ---- C7
\* C7: a submit activity that ended without being killed has fed the
\* indices 0 .. n-1 of the n compiled steps, in order, each once.
C7_FeedsAllSteps ==
    \A t \in Tasks :
       (submit_pc[t] = "done" /\ kill[t] = {})
          => fed[t] = [i \in 1..steps[t] |-> i - 1]

\* ---- C8
\* C8 (as stated): a running task whose fetch activity has its kill
\* signal set never becomes finished.
C8_NeverFinishedAfterKill ==
    [][\A t \in Tasks :
         (status[t] = "running" /\ "fetch" \in kill[t])
            => status'[t] # "finished"]_vars

\* C8 (amended): a fetch activity at the top of a poll iteration with its
\* kill signal set makes the task cancelled and ends; a running task with
\* the signal set changes status only to cancelled, or to finished or
\* failed by the poll iteration that had passed its kill check before.
C8_CancelledAtLoopTop ==
    [][\A t \in Tasks :
         /\ (fetch_pc[t] = "top" /\ "fetch" \in kill[t]
               /\ fetch_pc'[t] # fetch_pc[t])
              => (status'[t] = "cancelled" /\ fetch_pc'[t] = "finally")
         /\ (status[t] = "running" /\ "fetch" \in kill[t]
               /\ status'[t] # status[t])
              => \/ status'[t] = "cancelled"
                 \/ fetch_pc[t] = "poll"
                      /\ status'[t] \in {"finished", "failed"}]_vars

\* A running task cancelled by its fetch activity on the kill signal.
C8_Witness ==
    /\ status["A"] = "cancelled"
    /\ prev_status["A"] = "running"
    /\ "fetch" \in kill["A"]
    /\ fetch_pc["A"] = "done"

\* ---- C9
\* C9: the fetch activity of a running task that observed the kill signal
\* has called executor.free for the task exactly once.
C9_FreeOnKill ==
    \A t \in Tasks :
       (status[t] = "cancelled" /\ prev_status[t] = "running")
          => fetch_frees[t] = 1

\* ---- C10
\* C10: a call of Scheduler.cancel goes through its four phases (queue,
\* stack, executor.cancel, running pool) and returns; it never ends by
\* raising.
C10_CancelReturns ==
    cancel_pc \in {"idle", "queue", "stack", "executor", "pool"}

\* ---- C11
\* C11: an id, once assigned to a task by Scheduler.submit, never changes,
\* and no two tasks have the same assigned id.
C11_IdAssignedOnce ==
    [][\A t \in Tasks :
         /\ id[t] # NoId => id'[t] = id[t]
         /\ \A u \in Tasks \ {t} : id'[t] # NoId => id'[t] # id'[u]]_vars

\* ---- C12
\* C12: when the status of a task becomes finished, failed or cancelled,
\* its submit activity has made the cleanup feed (step index -2), which
\* it makes after its last step feed, and has ended.
C12_CleanupBeforeTerminal ==
    [][\A t \in Tasks :
         (status[t] \notin TerminalStatus /\ status'[t] \in TerminalStatus)
            => (clean_feeds[t] = 1 /\ submit_pc[t] = "done")]_vars

\* ---- C13
\* C13: a task whose submit activity was ended by a raising executor.feed
\* is failed: it is neither running nor finished.
C13_FeedRaiseFails ==
    \A t \in Tasks :
       submit_pc[t] = "crashed" => status[t] \notin {"running", "finished"}

\* ---- C14
\* C14: after an exception inside the poll loop of a task's fetch
\* activity the task is failed, executor.free was called for it once by
\* the fetch activity, the activity goes on to its persistence step,
\* which commits the record of a task that has one, and the step that
\* raised leaves the submission loop where it was.
C14_PollExceptionHandled ==
    /\ \A t \in Tasks :
          poll_raised[t] =>
             /\ status[t] = "failed"
             /\ fetch_frees[t] = 1
             /\ fetch_pc[t] \in {"finally", "done"}
             /\ (fetch_pc[t] = "done" /\ record[t] # None) => commits[t] = 1
    /\ loop_pc = "crashed" => cancel_pc # "idle"

\* The poll loop of A raised, and the record of A was committed after.
C14_Witness ==
    /\ poll_raised["A"]
    /\ fetch_pc["A"] = "done"
    /\ record["A"] = "committed"

C18_CommitFailureSwallowed ==
    [][\A t \in Tasks :
         /\ (fetch_pc[t] = "finally" /\ fetch_pc'[t] # "finally")
              => (status'[t] = status[t] /\ fetch_pc'[t] = "done")
         /\ record'[t] = "commit raised"
              => (status'[t] \in TerminalStatus
                  /\ (record[t] = "commit raised" => status'[t] = status[t])
                  /\ fetch_pc'[t] = "done")]_vars

\* A finished task whose commit raised.
C18_Witness ==
    /\ record["A"] = "commit raised"
    /\ status["A"] = "finished"
    /\ fetch_pc["A"] = "done"

\* ---- C19
\* C19: a task for which executor.save was called, which happens once
\* all its results are fetched, is not failed: a raising save leaves it
\* finished.
C19_SaveErrorNotFatal ==
    \A t \in Tasks : saves[t] >= 1 => status[t] # "failed"

\* ---- C20
\* C20: once the kill signals of a task in a terminal status have been
\* set, the status stays what it is and no executor call (feed of a step,
\* cleanup feed, free, save) is made for the task.
C20_LateCancelNoOp ==
    [][\A t \in Tasks :
         late_cancel[t] =>
            /\ status'[t] = status[t]
            /\ fed'[t] = fed[t]
            /\ clean_feeds'[t] = clean_feeds[t]
            /\ frees'[t] = frees[t]
            /\ fetch_frees'[t] = fetch_frees[t]
            /\ saves'[t] = saves[t]]_vars

\* ---- C15
\* C15: whenever the parent A is alone on the stack, its child B is
\* queued and the queue also holds C, not nested in A and ordered before
\* B, the child B is eventually dispatched.
C15_ChildNotStarved ==
    [](( /\ current_stack = <<"A">>
         /\ task_queue["B"] > 0 /\ task_queue["C"] > 0
         /\ ~is_children_of("C", "A")
         /\ Lt(TaskRec("C"), TaskRec("B")) )
        => <>(frees["B"] >= 1))

\* ---- C16
\* C16: whenever the stack is empty and the queue holds the ready task A
\* and the task C whose scheduled time is still ahead, A is eventually
\* dispatched, whichever of the two orders first.
C16_FutureTaskDoesNotBlock ==
    [](( /\ current_stack = <<>>
         /\ task_queue["A"] > 0 /\ task_queue["C"] > 0
         /\ NotYetDue("C") /\ ~NotYetDue("A") )
        => <>(frees["A"] >= 1))

\* ---- C21
\* C21 (as stated): when a Scheduler.submit that is not a dry run returns,
\* the compile activity of the task has been started, whether or not the
\* program has hardware feedback.
C21_CompileStartedAtSubmit ==
    [][\A c \in Clients :
         (call_pc[c] = "mid" /\ call_pc'[c] = "idle" /\ ~call_dry[c])
            => compile_pc'[call_task[c]] = "alive"]_vars

\* C21 (amended): when a Scheduler.submit that is not a dry run returns,
\* the task has one more entry in the pending queue; a task without
\* hardware feedback is 'compiling' and its compile activity has been
\* started, a task with feedback is 'pending' and its compile activity
\* has not been started.
C21_SubmitEffects ==
    [][\A c \in Clients :
         (call_pc[c] = "mid" /\ call_pc'[c] = "idle" /\ ~call_dry[c])
            => LET t == call_task[c] IN
               /\ task_queue'[t] = task_queue[t] + 1
               /\ ~with_feedback[t] =>
                     (status'[t] = "compiling" /\ compile_pc'[t] = "alive")
               /\ with_feedback[t] =>
                     (status'[t] = "pending" /\ compile_pc'[t] = "idle")]_vars

\* A task with feedback after its submit: queued, pending, not compiling.
C21_Witness ==
    /\ call_result["u1"] = "ok"
    /\ with_feedback["A"]
    /\ status["A"] = "pending"
    /\ task_queue["A"] = 1
    /\ compile_pc["A"] = "idle"

\* ---------------------------------------------- Scheduler.login in isolation
\* No task; clients log in and users are added.
InitLogin ==
    /\ universe = {}
    /\ with_feedback = [t \in Tasks |-> FALSE]
    /\ faulty = {}
    /\ InitRecord({})
    /\ InitRuntime /\ InitScheduler /\ InitExecutor
    /\ clients = {"u1"}
    /\ InitNesting
    /\ priority = [t \in Tasks |-> 0]
    /\ at = [t \in Tasks |-> 0 - 1]
    /\ now = 1
    /\ InitLtIdle /\ InitLoginIdle /\ InitPermIdle
    /\ InitBootIdle /\ InitLibIdle

\* scheduler.py 259-261: Scheduler.login
login(username, password) ==
    /\ sessions < MaxSessions
    /\ LET r == verify_user(users, username, password) IN
       /\ users' = r.users
       /\ login_result' = IF r.raised = None THEN "session" ELSE r.raised
       /\ sessions' = IF r.raised = None THEN sessions + 1 ELSE sessions
    /\ login_user' = username
    /\ login_pw' = password
    /\ UNCHANGED <<cfgVars, taskVars, loopVars, collVars, cancelVars,
                   callVars, execVars, recVars, ltVars, permVars, bootVars,
                   libVars>>

\* scheduler.py 263-274: Scheduler.add_user; 'User already exists' leaves
\* the table as it is.
add_user(username, password) ==
    /\ users[username] = Absent
    /\ users' = [users EXCEPT ![username] = password]
    /\ UNCHANGED <<cfgVars, taskVars, loopVars, collVars, cancelVars,
                   callVars, execVars, recVars, ltVars, permVars, bootVars,
                   libVars,
                   sessions, login_user, login_pw, login_result>>

NextLogin ==
    \/ \E u \in UserNames, p \in UserPasswords \cup {Uuid} : login(u, p)
    \/ \E u \in UserNames, p \in UserPasswords : add_user(u, p)

SpecLogin == InitLogin /\ [][NextLogin]_vars

\* ------------------------------------------------------ Cycles in isolation
InitPerm ==
    /\ universe = {}
    /\ with_feedback = [t \in Tasks |-> FALSE]
    /\ faulty = {}
    /\ InitRecord({})
    /\ InitRuntime /\ InitScheduler /\ InitExecutor
    /\ clients = {"u1"}
    /\ InitNesting
    /\ priority = [t \in Tasks |-> 0]
    /\ at = [t \in Tasks |-> 0 - 1]
    /\ now = 1
    /\ InitLtIdle /\ InitLoginIdle /\ InitBootIdle /\ InitLibIdle
    /\ perm_a \in AllCycles
    /\ perm_b \in AllCycles
    /\ perm_prod = Identity /\ perm_inv = Identity
    /\ perm_right = Identity /\ perm_left = Identity
    /\ perm_done = {}

\* perm_a * perm_b
PermMul ==
    /\ "mul" \notin perm_done
    /\ perm_prod' = mul(perm_a, perm_b)
    /\ perm_done' = perm_done \cup {"mul"}
    /\ UNCHANGED <<cfgVars, taskVars, loopVars, collVars, cancelVars,
                   callVars, execVars, recVars, ltVars, loginVars, bootVars,
                   libVars,
                   perm_a, perm_b, perm_inv, perm_right, perm_left>>

\* perm_a.inv()
PermInv ==
    /\ "inv" \notin perm_done
    /\ perm_inv' = inv(perm_a)
    /\ perm_done' = perm_done \cup {"inv"}
    /\ UNCHANGED <<cfgVars, taskVars, loopVars, collVars, cancelVars,
                   callVars, execVars, recVars, ltVars, loginVars, bootVars,
                   libVars,
                   perm_a, perm_b, perm_prod, perm_right, perm_left>>

\* perm_a * perm_a.inv() and perm_a.inv() * perm_a
PermMulInv ==
    /\ "inv" \in perm_done
    /\ "mulinv" \notin perm_done
    /\ perm_right' = mul(perm_a, perm_inv)
    /\ perm_left' = mul(perm_inv, perm_a)
    /\ perm_done' = perm_done \cup {"mulinv"}
    /\ UNCHANGED <<cfgVars, taskVars, loopVars, collVars, cancelVars,
                   callVars, execVars, recVars, ltVars, loginVars, bootVars,
                   libVars,
                   perm_a, perm_b, perm_prod, perm_inv>>

NextPerm == PermMul \/ PermInv \/ PermMulInv

SpecPerm == InitPerm /\ [][NextPerm]_vars

\* ---- C22
\* Scheduler.login returns a session only when the user exists and the
\* password verifies, or when the system user logs in with the scheduler's
\* own uuid; an unknown user name raises 'User not found' and a wrong
\* password raises 'Wrong password', and then no session is created and the
\* user table is unchanged; the only user login ever adds is the system
\* user, and only under the scheduler's uuid.
C22_LoginContract ==
    [][(<<login_user, login_pw, login_result, sessions>>'
            # <<login_user, login_pw, login_result, sessions>>)
        => LET u == login_user'
               p == login_pw'
               system == u = SystemUser /\ p = Uuid
           IN /\ login_result' = "session"
                  => /\ sessions' = sessions + 1
                     /\ \/ users[u] # Absent /\ verify(users[u], p)
                        \/ system
              /\ (users[u] = Absent /\ ~system)
                  => /\ login_result' = "User not found"
                     /\ sessions' = sessions /\ users' = users
              /\ (users[u] # Absent /\ ~verify(users[u], p) /\ ~system)
                  => /\ login_result' = "Wrong password"
                     /\ sessions' = sessions /\ users' = users
              /\ users' # users
                  => /\ system /\ users[u] = Absent
                     /\ users' = [users EXCEPT ![SystemUser] = NoPassword]]_vars

C22_Witness ==
    /\ login_result = "Wrong password" /\ login_user = "alice"
    /\ users["alice"] = "pw1" /\ login_pw = "pw2"
    /\ users[SystemUser] = Absent /\ sessions = 0

\* ---- C23
\* The product applies the left factor and then the right one:
\* (a * b).replace(x) = b.replace(a.replace(x)) for every point x, moved
\* or not; and p * p.inv() and p.inv() * p are the identity.
C23_ApplyLeftThenRight ==
    /\ "mul" \in perm_done
        => \A x \in 0..MaxPoint :
               replace(perm_prod, x) = replace(perm_b, replace(perm_a, x))
    /\ "mulinv" \in perm_done
        => /\ is_identity(perm_right) /\ perm_right = Identity
           /\ is_identity(perm_left) /\ perm_left = Identity

C23_Witness ==
    /\ perm_done = {"mul", "inv", "mulinv"}
    /\ Len(perm_a._cycles) = 2
    /\ replace(perm_prod, 0) # replace(perm_a, replace(perm_b, 0))

\* ---- C24
\* C24: at the step that makes a task 'finished' its submit activity has
\* ended, every compiled step has been fed, the number of fetched results
\* is at least the step cursor, the status was 'running', and save has
\* been called exactly once, by this step.
C24_FinishedPreconditions ==
    [][\A t \in Tasks :
         (status'[t] = "finished" /\ status[t] # "finished")
            => /\ ~IsAlive(submit_pc[t])
               /\ fed[t] = [i \in 1..steps[t] |-> i - 1]
               /\ finished_step'[t] >= step[t]
               /\ status[t] = "running"
               /\ prev_status'[t] = "running"
               /\ saves[t] = 0 /\ saves'[t] = 1]_vars

C24_Witness ==
    /\ status["A"] = "finished" /\ prev_status["A"] = "running"
    /\ saves["A"] = 1 /\ steps["A"] = NSteps /\ Len(fed["A"]) = NSteps
    /\ submit_pc["A"] = "done"

C26_SubmitOutlastsCompile ==
    \A t \in Tasks :
       /\ (submit_pc[t] = "done" /\ "submit" \notin kill[t])
             => /\ ~IsAlive(compile_pc[t])
                /\ Len(fed[t]) = steps[t]
       /\ \A i \in DOMAIN fed[t] : fed[t][i] < steps[t]

\* ---- C27
\* C27: a task of which a step has been fed, or whose submit activity has
\* been started, has had its reservation freed by dispatch; and the step
\* that starts the submit activity leaves the task on top of the stack,
\* 'submiting', with one more free(task_id) made.
C27_FreeAndPushBeforeSubmit ==
    [][\A t \in Tasks :
         /\ (fed'[t] # fed[t]) => (frees[t] >= 1 /\ submit_pc[t] # "idle")
         /\ (submit_pc[t] = "idle" /\ submit_pc'[t] # "idle")
               => /\ frees'[t] = frees[t] + 1
                  /\ status'[t] = "submiting"
                  /\ current_stack' # <<>>
                  /\ current_stack'[Len(current_stack')] = t
                  /\ fed'[t] = <<>>]_vars

C27_Witness ==
    /\ fed["A"] = <<0>> /\ frees["A"] = 1 /\ status["A"] = "submiting"
    /\ current_stack = <<"A">>

\* ------------------------------------------- two unrelated immediate tasks
\* A, created first, and B, of any two priorities; neither is nested in
\* the other.
InitPrio ==
    /\ universe = {"A", "B"}
    /\ clients = {"u1"}
    /\ with_feedback = [t \in Tasks |-> TRUE]
    /\ faulty = {}
    /\ InitRecord({})
    /\ parent = [t \in Tasks |-> None]
    /\ created_time = [t \in Tasks |-> IF t = "A" THEN 1
                                        ELSE IF t = "B" THEN 2 ELSE 3]
    /\ priority \in [Tasks -> PriorityValues]
    /\ priority["C"] = 0
    /\ at = [t \in Tasks |-> 0 - 1]
    /\ now = 1
    /\ InitRuntime /\ InitScheduler /\ InitExecutor /\ InitOffIdle

\* The client and the submission loop, before any activity of a
\* dispatched task has run.
NextPrio ==
    \/ Client
    \/ SubmitLoop \/ LoopCheckTop

SpecPrio == InitPrio /\ [][NextPrio]_vars

\* ---- C28
\* C28: when the loop takes a task off the queue while the stack is empty
\* and the queue holds two immediate tasks that are not cancelled, it takes
\* the one of lower priority value, and of equal priorities the one created
\* earlier; and the task it took on an empty stack is the one it
\* dispatches next.
C28_PriorityThenCreation ==
    [][/\ (/\ loop_pc = "get" /\ loop_pc' = "check"
           /\ current_stack = <<>>
           /\ Cardinality(QueueTasks) = 2
           /\ \A t \in QueueTasks :
                 at[t] = 0 - 1 /\ status[t] # "cancelled")
          => \A u \in QueueTasks \ {loop_task'} :
                \/ priority[loop_task'] < priority[u]
                \/ /\ priority[loop_task'] = priority[u]
                   /\ created_time[loop_task'] < created_time[u]
       /\ (/\ loop_pc = "check" /\ loop_pc' # "check"
           /\ current_stack = <<>>
           /\ at[loop_task] = 0 - 1 /\ status[loop_task] # "cancelled")
          => /\ loop_pc' = "submit" /\ loop_task' = loop_task
             /\ task_queue' = task_queue
       /\ (loop_pc = "submit" /\ loop_pc' # "submit")
          => /\ submit_pc'[loop_task] = "top"
             /\ \A u \in Tasks \ {loop_task} : submit_pc'[u] = submit_pc[u]]_vars

C28_Witness ==
    /\ loop_pc = "pool" /\ loop_task = "B" /\ submit_pc["B"] = "top"
    /\ task_queue["A"] = 1 /\ submit_pc["A"] = "idle"
    /\ priority["B"] < priority["A"]

\* ------------------------------------- one task, the submit thread fairly
\* One task without a database record on an executor whose calls may
\* raise.
InitKill ==
    /\ universe = {"A"}
    /\ \E fb \in BOOLEAN : with_feedback = [t \in Tasks |-> fb]
    /\ faulty = {"A"}
    /\ InitRecord({})
    /\ InitCommon

\* The task may be cancelled by its session; the schedules are those that
\* let the submit thread of a task take its next step.
NextKill ==
    \/ Client
    \/ TaskThreads
    \/ SubmitLoop
    \/ \E t \in Tasks : waiting_loop(t)
    \/ \E t \in Tasks : TaskCancel(t)

SpecKill ==
    /\ InitKill /\ [][NextKill]_vars
    /\ WF_vars(\E t \in Tasks : SubmitThreadTop(t) \/ SubmitThreadAlive(t))

C30_InPoolUntilFetchEnds ==
    \A t \in Tasks :
       (\/ loop_pc = "fetch" /\ loop_task = t
        \/ IsAlive(fetch_pc[t]))
          => t \in running_pool

\* ---- C31
\* C31: however many threads call Scheduler.submit on one task, the task
\* is put in the pending queue once: a second call returns only by
\* raising.
C31_OneSubmitSucceeds ==
    \A t \in Tasks : task_queue[t] <= 1

\* ------------------------------- Scheduler.cancel against submitted tasks
\* A and its child B have both been submitted (programs with feedback:
\* 'pending', ids 0 and 1, in the pending queue) and no client submits
\* any more.
InitDrain ==
    /\ universe = {"A", "B"}
    /\ clients = {}
    /\ with_feedback = [t \in Tasks |-> TRUE]
    /\ faulty = {}
    /\ InitRecord({})
    /\ InitNesting
    /\ priority = [t \in Tasks |-> 0]
    /\ at = [t \in Tasks |-> 0 - 1]
    /\ now = 1
    /\ status = [t \in Tasks |-> IF t \in {"A", "B"} THEN "pending"
                                  ELSE NotSubmitted]
    /\ prev_status = [t \in Tasks |-> NotSubmitted]
    /\ kill = [t \in Tasks |-> {}]
    /\ late_cancel = [t \in Tasks |-> FALSE]
    /\ step = [t \in Tasks |-> 0]
    /\ steps = [t \in Tasks |-> 0]
    /\ compile_pc = [t \in Tasks |-> "idle"]
    /\ submit_pc = [t \in Tasks |-> "idle"]
    /\ submit_i = [t \in Tasks |-> 0]
    /\ fetch_pc = [t \in Tasks |-> "idle"]
    /\ task_queue = [t \in Tasks |-> IF t \in {"A", "B"} THEN 1 ELSE 0]
    /\ current_stack = <<>>
    /\ running_pool = {}
    /\ loop_pc = "top"
    /\ loop_cur = None
    /\ loop_task = None
    /\ cancel_pc = "idle"
    /\ call_pc = [c \in Clients |-> "idle"]
    /\ call_task = [c \in Clients |-> None]
    /\ call_dry = [c \in Clients |-> FALSE]
    /\ call_result = [c \in Clients |-> "ok"]
    /\ counter = 2
    /\ id = [t \in Tasks |-> IF t = "A" THEN generate_task_id(0)
                              ELSE IF t = "B" THEN generate_task_id(1)
                              ELSE NoId]
    /\ InitExecutor /\ InitOffIdle

\* The submission loop and calls of Scheduler.cancel(), on the schedules
\* in which the activities of a dispatched task have not run yet.
NextDrain ==
    \/ SubmitLoop \/ LoopCheckTop
    \/ SchedulerCancel

SpecDrain == InitDrain /\ [][NextDrain]_vars

\* ---- C32
\* C32: once a call of Scheduler.cancel() has ended, and until the next
\* call, the active-submission stack is empty and the submission loop
\* frees and feeds nothing for the tasks submitted before the call.
C32_CancelReachesAllTasks ==
    /\ [](cancel_pc = "raised" => current_stack = <<>>)
    /\ [][cancel_pc = "raised" => (frees' = frees /\ fed' = fed)]_vars

\* ---- C33
\* C33: no step of a task is fed once the status of the task is finished,
\* failed or cancelled.
C33_NoFeedAfterTerminal ==
    [][\A t \in Tasks :
         status[t] \in TerminalStatus => fed'[t] = fed[t]]_vars

\* ----------------------------------------- a task that is queued twice
\* What two concurrent calls of Scheduler.submit leave: task A, a program
\* with or without feedback, holds the id of the second call and is in the
\* pending queue twice; no client submits any more.
InitDup ==
    /\ universe = {"A"}
    /\ clients = {}
    /\ \E fb \in BOOLEAN : with_feedback = [t \in Tasks |-> fb]
    /\ faulty = {}
    /\ InitRecord({})
    /\ InitNesting
    /\ priority = [t \in Tasks |-> 0]
    /\ at = [t \in Tasks |-> 0 - 1]
    /\ now = 1
    /\ status = [t \in Tasks |-> IF t # "A" THEN NotSubmitted
                                  ELSE IF with_feedback[t] THEN "pending"
                                  ELSE "compiling"]
    /\ prev_status = status
    /\ kill = [t \in Tasks |-> {}]
    /\ late_cancel = [t \in Tasks |-> FALSE]
    /\ step = [t \in Tasks |-> 0]
    /\ steps = [t \in Tasks |-> 0]
    /\ compile_pc = [t \in Tasks |-> IF t = "A" /\ ~with_feedback[t]
                                      THEN "alive" ELSE "idle"]
    /\ submit_pc = [t \in Tasks |-> "idle"]
    /\ submit_i = [t \in Tasks |-> 0]
    /\ fetch_pc = [t \in Tasks |-> "idle"]
    /\ task_queue = [t \in Tasks |-> IF t = "A" THEN 2 ELSE 0]
    /\ current_stack = <<>>
    /\ running_pool = {}
    /\ loop_pc = "top"
    /\ loop_cur = None
    /\ loop_task = None
    /\ cancel_pc = "idle"
    /\ call_pc = [c \in Clients |-> "idle"]
    /\ call_task = [c \in Clients |-> None]
    /\ call_dry = [c \in Clients |-> FALSE]
    /\ call_result = [c \in Clients |-> "ok"]
    /\ counter = 2
    /\ id = [t \in Tasks |-> IF t = "A" THEN generate_task_id(1) ELSE NoId]
    /\ InitExecutor /\ InitOffIdle

\* The loops, the activities of the task and its cancellation by a
\* session.
NextDup ==
    \/ TaskThreads
    \/ SubmitLoop
    \/ \E t \in Tasks : waiting_loop(t)
    \/ \E t \in Tasks : TaskCancel(t)

SpecDup == InitDup /\ [][NextDup]_vars

\* ---- C34
\* C34: the loop, holding a task it took from the queue whose status is
\* 'cancelled', lets go of it and starts over: the task is not put back in
\* the queue, no free or feed is made, the stack, the running pool and the
\* status stay as they are.
C34_CancelledTaskDropped ==
    [][(/\ loop_pc = "check" /\ loop_pc' # "check"
        /\ status[loop_task] = "cancelled")
          => /\ loop_pc' = "top" /\ loop_task' = None
             /\ UNCHANGED <<task_queue, current_stack, running_pool,
                            frees, fed, clean_feeds, status>>]_vars

C34_Witness ==
    /\ status["A"] = "cancelled" /\ task_queue["A"] = 0
    /\ loop_task = None /\ loop_pc \in {"top", "get"}
    /\ frees["A"] = 1 /\ current_stack = <<>>
    /\ fetch_pc["A"] = "done"

\* ---- C35
\* C35: a call of Scheduler.submit that raises because the task was
\* submitted before leaves the id, the status, the threads and kill
\* signals of every task, the pending queue and the id counter as they
\* were.
C35_RejectedSubmitChangesNothing ==
    [][\A c \in Clients :
         (call_result[c] # "raised" /\ call_result'[c] = "raised")
            => /\ call_pc[c] = "idle" /\ call_pc'[c] = "idle"
               /\ UNCHANGED <<id, counter, status, kill, compile_pc,
                              submit_pc, fetch_pc, task_queue,
                              current_stack, running_pool>>]_vars

C35_Witness ==
    /\ call_result["u2"] = "raised" /\ call_result["u1"] = "ok"
    /\ counter = 1 /\ id["A"] = generate_task_id(0)
    /\ task_queue["A"] = 1 /\ status["A"] = "pending"

\* ------------------------------------------------ a dry run beside a run
\* Two unrelated tasks: A, compiled ahead, is only ever submitted as a dry
\* run; B, compiled with feedback, is submitted for execution.
InitDry ==
    /\ universe = {"A", "B"}
    /\ clients = {"u1"}
    /\ with_feedback = [t \in Tasks |-> t # "A"]
    /\ faulty = {}
    /\ InitRecord({})
    /\ parent = [t \in Tasks |-> None]
    /\ created_time = [t \in Tasks |-> IF t = "A" THEN 1
                                        ELSE IF t = "B" THEN 2 ELSE 3]
    /\ priority = [t \in Tasks |-> 0]
    /\ at = [t \in Tasks |-> 0 - 1]
    /\ now = 1
    /\ InitRuntime /\ InitScheduler /\ InitExecutor /\ InitOffIdle

ClientDry ==
    \/ \E c \in Clients : SubmitBegin(c, "A", TRUE)
    \/ \E c \in Clients : SubmitBegin(c, "B", FALSE)
    \/ \E c \in Clients : SubmitEnd(c)

\* The one queued task is taken on an empty stack, so the containment
\* test of line 109 is never reached.
NextDry ==
    \/ ClientDry
    \/ TaskThreads
    \/ SubmitLoop
    \/ \E t \in Tasks : waiting_loop(t)

SpecDry == InitDry /\ [][NextDry]_vars

\* ---- C36
\* C36: a task submitted as a dry run only has an id and the status
\* 'compiling' or 'pending' once the call has returned; it is never in the
\* pending queue, in the hands of the loop, on the stack or in the running
\* pool, its status is never another one, and no free and no feed is made
\* for it.
C36_DryRunNeverDispatched ==
    /\ task_queue["A"] = 0 /\ loop_task # "A" /\ loop_cur # "A"
    /\ \A i \in DOMAIN current_stack : current_stack[i] # "A"
    /\ "A" \notin running_pool
    /\ status["A"] \in {NotSubmitted, "compiling", "pending"}
    /\ status["A"] # NotSubmitted => id["A"] # NoId
    /\ frees["A"] = 0 /\ fed["A"] = <<>> /\ clean_feeds["A"] = 0
    /\ submit_pc["A"] = "idle" /\ fetch_pc["A"] = "idle"

C36_Witness ==
    /\ status["A"] = "compiling" /\ id["A"] # NoId
    /\ compile_pc["A"] = "done" /\ steps["A"] = NSteps
    /\ status["B"] = "finished" /\ loop_pc = "get"

\* ------------------------------------------ Scheduler.bootstrap in isolation
\* How many calls of bootstrap the model makes.
MaxBootCalls == 4
\* The executors a caller may hand over.
Executors == {"e1", "e2"}
\* The url argument; None selects the sqlite file under data_path.
Urls == {None, "u1"}
DefaultUrl == "sqlite"
\* How a call that passes the guard ends: it returns, or it raises in
\* mkdir/create_engine, or in create_tables/verify_user.
BootOutcomes == {"ok", "engine", "tables"}

Bootstrapped_M == FALSE

\* scheduler.py 197
Bootstrapped == executor # None

\* scheduler.py 176-239: Scheduler.bootstrap.  A call that raises leaves
\* what it had assigned before.
bootstrap(e, url, dbg, outcome) ==
    /\ boot_calls < MaxBootCalls
    /\ boot_calls' = boot_calls + 1
    /\ boot_args' = <<e, url, dbg>>
    /\ IF Bootstrapped
       THEN UNCHANGED <<executor, eng, debug_mode, submit_loops,
                        waiting_loops, users>>
       ELSE /\ executor' = e
            /\ eng' = IF outcome = "engine" THEN eng
                      ELSE IF url = None THEN DefaultUrl ELSE url
            /\ users' = IF outcome = "ok"
                        THEN verify_user(users, SystemUser, Uuid).users
                        ELSE users
            /\ debug_mode' = IF outcome = "ok" THEN dbg ELSE debug_mode
            /\ waiting_loops' = IF outcome = "ok" THEN waiting_loops + 1
                                ELSE waiting_loops
            /\ submit_loops' = IF outcome = "ok" THEN submit_loops + 1
                               ELSE submit_loops
    /\ UNCHANGED <<cfgVars, taskVars, loopVars, collVars, cancelVars,
                   callVars, execVars, recVars, ltVars, permVars, libVars,
                   sessions, login_user, login_pw, login_result>>

\* scheduler.py 165-174: the Scheduler as constructed, no task made.
InitBoot ==
    /\ universe = {}
    /\ with_feedback = [t \in Tasks |-> FALSE]
    /\ faulty = {}
    /\ InitRecord({})
    /\ InitRuntime /\ InitScheduler /\ InitExecutor
    /\ clients = {}
    /\ InitNesting
    /\ priority = [t \in Tasks |-> 0]
    /\ at = [t \in Tasks |-> 0 - 1]
    /\ now = 1
    /\ InitOffIdle

NextBoot ==
    \E e \in Executors, url \in Urls, dbg \in BOOLEAN,
       outcome \in BootOutcomes : bootstrap(e, url, dbg, outcome)

SpecBoot == InitBoot /\ [][NextBoot]_vars

\* ---- C37
\* C37: Scheduler.bootstrap is idempotent: once a call has been made, a
\* further call leaves the executor, the database engine, the system user
\* and the background threads as they are, and at every time at most one
\* submission loop and at most one waiting loop have been started.
C37_BootstrapIdempotent ==
    /\ [](submit_loops <= 1 /\ waiting_loops <= 1)
    /\ [][boot_calls >= 1 /\ boot_calls' = boot_calls + 1
          => UNCHANGED <<executor, eng, debug_mode, submit_loops,
                         waiting_loops, users>>]_vars

C37_Witness ==
    /\ boot_calls >= 2
    /\ executor = "e1" /\ boot_args[1] = "e2"
    /\ submit_loops = 1 /\ waiting_loops = 1

\* ------------------------------------------------------ qlisp Library
\* How many parents libraries() is given at most.
MaxParents == 2
GateNames == {"X", "Y"}

\* library.py 68-72: a Library without parents; tag tells the objects
\* apart, gates and opaques are the names it defines.
Libraries ==
    [tag : 1..MaxParents, gates : SUBSET GateNames,
     opaques : SUBSET GateNames]

\* What a lookup returns when nothing is found (Python's None).
NoDefinition == <<>>

\* library.py 10-44, 47-64: the definition library lib holds for name.
Definition(lib, name) == <<lib.tag, name>>

\* library.py 81
OwnGate(lib, name) ==
    IF name \in lib.gates THEN Definition(lib, name) ELSE NoDefinition

\* library.py 90-93
OwnOpaque(lib, name) ==
    IF name \in lib.opaques THEN Definition(lib, name) ELSE NoDefinition

\* library.py 85-86: the test that leaves the parent loop, on the name.
BreakOnGate(name, gate) == name # None

\* library.py 97-98
BreakOnOpaque(name, opaque) == opaque # NoDefinition

\* library.py 84-86: the loop over the parents from position i on; gate is
\* the value of the variable when the loop is left.
RECURSIVE GateLoop(_, _, _)
GateLoop(parents, i, name) ==
    IF i > Len(parents) THEN NoDefinition
    ELSE LET gate == OwnGate(parents[i], name) IN
         IF BreakOnGate(name, gate) \/ i = Len(parents) THEN gate
         ELSE GateLoop(parents, i + 1, name)

\* library.py 95-98
RECURSIVE OpaqueLoop(_, _, _)
OpaqueLoop(parents, i, name) ==
    IF i > Len(parents) THEN NoDefinition
    ELSE LET opaque == OwnOpaque(parents[i], name) IN
         IF BreakOnOpaque(name, opaque) \/ i = Len(parents) THEN opaque
         ELSE OpaqueLoop(parents, i + 1, name)

\* library.py 111-114: a Library with no definition of its own.
libraries(libs) == [tag |-> 0, gates |-> {}, opaques |-> {}, parents |-> libs]

\* library.py 80-87
getGate(lib, name) ==
    LET gate == IF name \in lib.gates THEN Definition(lib, name) ELSE NoDefinition IN
    IF gate = NoDefinition /\ Len(lib.parents) > 0
    THEN GateLoop(lib.parents, 1, name)
    ELSE gate

\* library.py 89-99, type 'default'
getOpaque(lib, name) ==
    LET opaque == IF name \in lib.opaques THEN Definition(lib, name)
                  ELSE NoDefinition IN
    IF opaque = NoDefinition /\ Len(lib.parents) > 0
    THEN OpaqueLoop(lib.parents, 1, name)
    ELSE opaque

\* Sequences of length 1 .. n over S.
RECURSIVE SeqsUpTo(_, _)
SeqsUpTo(S, n) ==
    IF n = 0 THEN {}
    ELSE [1..n -> S] \cup SeqsUpTo(S, n - 1)

\* No task; a library is built from parents and a name is looked up.
InitLib ==
    /\ universe = {}
    /\ with_feedback = [t \in Tasks |-> FALSE]
    /\ faulty = {}
    /\ InitRecord({})
    /\ InitRuntime /\ InitScheduler /\ InitExecutor
    /\ clients = {}
    /\ InitNesting
    /\ priority = [t \in Tasks |-> 0]
    /\ at = [t \in Tasks |-> 0 - 1]
    /\ now = 1
    /\ InitLtIdle /\ InitLoginIdle /\ InitPermIdle /\ InitBootIdle
    /\ lib_parents \in SeqsUpTo(Libraries, MaxParents)
    /\ \A i \in DOMAIN lib_parents : lib_parents[i].tag = i
    /\ lib_name \in GateNames
    /\ lib_gate = NoDefinition
    /\ lib_opaque = NoDefinition
    /\ lib_done = {}

LibGetGate ==
    /\ "gate" \notin lib_done
    /\ lib_gate' = getGate(libraries(lib_parents), lib_name)
    /\ lib_done' = lib_done \cup {"gate"}
    /\ UNCHANGED <<cfgVars, taskVars, loopVars, collVars, cancelVars,
                   callVars, execVars, recVars, ltVars, loginVars, permVars,
                   bootVars, lib_parents, lib_name, lib_opaque>>

LibGetOpaque ==
    /\ "opaque" \notin lib_done
    /\ lib_opaque' = getOpaque(libraries(lib_parents), lib_name)
    /\ lib_done' = lib_done \cup {"opaque"}
    /\ UNCHANGED <<cfgVars, taskVars, loopVars, collVars, cancelVars,
                   callVars, execVars, recVars, ltVars, loginVars, permVars,
                   bootVars, lib_parents, lib_name, lib_gate>>

NextLib == LibGetGate \/ LibGetOpaque

SpecLib == InitLib /\ [][NextLib]_vars

\* ---- C38
\* C38: for a library built with libraries(p1, ..., pn), getGate(name)
\* returns the gate of the first parent in the order p1..pn that defines
\* name, and None only when no parent defines it.
C38_GetGateFirstDefiningParent ==
    "gate" \in lib_done =>
        LET defining == {i \in DOMAIN lib_parents :
                            lib_name \in lib_parents[i].gates} IN
        IF defining = {} THEN lib_gate = NoDefinition
        ELSE \E i \in defining :
                /\ \A j \in defining : i <= j
                /\ lib_gate = Definition(lib_parents[i], lib_name)

====
